---- MODULE Spec2Model ----
(***************************************************************************)
(* Model of Command.parse (src/src/struct/Command.js): the tokenizer       *)
(* (_splitText), the prefix extractor (_getPrefixes), the positional       *)
(* filter (noPrefixWords), the match dispatcher (parseFuncs) and the       *)
(* sequential evaluator (process).                                         *)
(*                                                                         *)
(* A JavaScript string is a sequence of one-character strings, so that     *)
(* trimming, lowercasing, prefix tests and the split regular expressions   *)
(* are computed character by character as the engine computes them.        *)
(***************************************************************************)
EXTENDS Integers, Sequences, FiniteSets, TLC

\* ------------------------------------------------------------------ bounds
\* Longest enumerated content, in characters.
MaxLen == 2

\* ------------------------------------------------------------ characters
\* Characters the enumerated contents are drawn from.
Chars == {"a", "A", "-", " ", "\""}

\* What \s matches among the characters used here.
IsSpace(ch) == ch \in {" ", "\t", "\n"}

QUOTE == "\""

\* String.prototype.toLowerCase, one character.
LowerChar(ch) ==
    CASE ch = "A" -> "a"
      [] ch = "B" -> "b"
      [] ch = "K" -> "k"
      [] OTHER -> ch

\* String.prototype.toLowerCase.
Lower(s) == [n \in 1..Len(s) |-> LowerChar(s[n])]

\* Array.prototype.slice / String.prototype.slice for 0 <= from: the
\* elements at 0-based positions from .. to-1 that exist.
Min(a, b) == IF a < b THEN a ELSE b

Slice(s, from, to) == SubSeq(s, from + 1, Min(to, Len(s)))

RECURSIVE TrimStart(_)
TrimStart(s) ==
    IF s # <<>> /\ IsSpace(Head(s)) THEN TrimStart(Tail(s)) ELSE s

RECURSIVE TrimEnd(_)
TrimEnd(s) ==
    IF s # <<>> /\ IsSpace(s[Len(s)]) THEN TrimEnd(SubSeq(s, 1, Len(s) - 1)) ELSE s

\* String.prototype.trim.
Trim(s) == TrimEnd(TrimStart(s))

\* String.prototype.startsWith.
StartsWith(s, p) == Len(p) <= Len(s) /\ SubSeq(s, 1, Len(p)) = p

\* 0-based positions at which p occurs in s.
Occurrences(s, p) ==
    {n \in 0..(Len(s) - Len(p)) : SubSeq(s, n + 1, n + Len(p)) = p}

SetMin(S) == CHOOSE x \in S : \A y \in S : x <= y

\* String.prototype.replace(p, '') with a string pattern: the first
\* occurrence of p is removed, the string is unchanged when there is none.
ReplaceFirst(s, p) ==
    IF Occurrences(s, p) = {} THEN s
    ELSE LET n == SetMin(Occurrences(s, p))
         IN  SubSeq(s, 1, n) \o SubSeq(s, n + Len(p) + 1, Len(s))

\* /^"[^]+"$/.test(s): a double quote, at least one character, a double quote.
IsQuotedRun(s) == Len(s) >= 3 /\ s[1] = QUOTE /\ s[Len(s)] = QUOTE

\* Array.prototype.join.
RECURSIVE Join(_, _)
Join(ws, sep) ==
    IF ws = <<>> THEN <<>>
    ELSE IF Len(ws) = 1 THEN ws[1]
    ELSE ws[1] \o sep \o Join(Tail(ws), sep)

\* ------------------------------------------------------------- tokenizer
\* String.prototype.split(ch) with a one-character separator.
RECURSIVE SplitChar(_, _, _)
SplitChar(s, ch, acc) ==
    IF s = <<>> THEN <<acc>>
    ELSE IF Head(s) = ch THEN <<acc>> \o SplitChar(Tail(s), ch, <<>>)
    ELSE SplitChar(Tail(s), ch, Append(acc, Head(s)))

\* Length of the longest run of non-whitespace characters starting at the
\* 1-based position p of s (the greedy \S+).
RECURSIVE NonSpaceRun(_, _)
NonSpaceRun(s, p) ==
    IF p > Len(s) \/ IsSpace(s[p]) THEN 0 ELSE 1 + NonSpaceRun(s, p + 1)

\* The optional trailing \s? after a match ending just before position q.
OptSpace(s, q) == IF q <= Len(s) /\ IsSpace(s[q]) THEN 1 ELSE 0

\* Length of the match of \S+\s? at position p, 0 when it does not match.
WordMatch(s, p) ==
    LET r == NonSpaceRun(s, p)
    IN  IF r = 0 THEN 0 ELSE r + OptSpace(s, p + r)

\* Positions of the double quotes after position p.
QuotesAfter(s, p) == {q \in (p + 1)..Len(s) : s[q] = QUOTE}

\* Length of the match of "[^]*?"\s? at position p, 0 when it does not match:
\* the lazy body stops at the nearest closing quote.
QuotedMatch(s, p) ==
    IF p > Len(s) \/ s[p] # QUOTE \/ QuotesAfter(s, p) = {} THEN 0
    ELSE LET q == SetMin(QuotesAfter(s, p))
         IN  (q - p + 1) + OptSpace(s, q + 1)

\* Length of the lazy run [^\s"]*? at position p: the characters before the
\* first whitespace or double quote.
RECURSIVE GlueRun(_, _)
GlueRun(s, p) ==
    IF p > Len(s) \/ IsSpace(s[p]) \/ s[p] = QUOTE THEN 0 ELSE 1 + GlueRun(s, p + 1)

\* A sticky alternative without the run in front of the quote.
StickyMatchNoGlue(s, p) == QuotedMatch(s, p)

\* Length of the match of [^\s"]*?"[^]*?"\s? at position p, 0 when none.
StickyMatch(s, p) ==
    LET g == GlueRun(s, p)
        m == QuotedMatch(s, p + g)
    IN  IF m = 0 THEN 0 ELSE g + m

\* Length of the match of the last alternative, a lone double quote.
LoneQuote(s, p) == IF p <= Len(s) /\ s[p] = QUOTE THEN 1 ELSE 0

\* String.prototype.match with a global regular expression whose match
\* length at a position is given by alternatives tried in order: the matches
\* left to right, each search resuming after the previous match.
RECURSIVE MatchPlain(_, _)
MatchPlain(s, p) ==
    IF p > Len(s) THEN <<>>
    ELSE LET m == WordMatch(s, p)
         IN  IF m = 0 THEN MatchPlain(s, p + 1)
             ELSE <<SubSeq(s, p, p + m - 1)>> \o MatchPlain(s, p + m)

RECURSIVE MatchQuoted(_, _)
MatchQuoted(s, p) ==
    IF p > Len(s) THEN <<>>
    ELSE LET m1 == QuotedMatch(s, p)
             m2 == IF m1 > 0 THEN m1 ELSE WordMatch(s, p)
             m  == IF m2 > 0 THEN m2 ELSE LoneQuote(s, p)
         IN  IF m = 0 THEN MatchQuoted(s, p + 1)
             ELSE <<SubSeq(s, p, p + m - 1)>> \o MatchQuoted(s, p + m)

RECURSIVE MatchSticky(_, _)
MatchSticky(s, p) ==
    IF p > Len(s) THEN <<>>
    ELSE LET m1 == StickyMatch(s, p)
             m2 == IF m1 > 0 THEN m1 ELSE WordMatch(s, p)
             m  == IF m2 > 0 THEN m2 ELSE LoneQuote(s, p)
         IN  IF m = 0 THEN MatchSticky(s, p + 1)
             ELSE <<SubSeq(s, p, p + m - 1)>> \o MatchSticky(s, p + m)

\* ---------------------------------------------------------- configuration
\* ArgumentMatches (util/Constants), the keys of parseFuncs.
WORD == "word"
REST == "rest"
SEPARATE == "separate"
PREFIX == "prefix"
FLAG == "flag"
TEXT == "text"
CONTENT == "content"
NONE == "none"

\* A match mode parseFuncs has no entry for.
BOGUS == "bogus"

\* arg.match when it is a function of (message, processed).
FUNCTION == "function"

MatchModes == {WORD, REST, SEPARATE, PREFIX, FLAG, TEXT, CONTENT, NONE}

\* ArgumentSplits (util/Constants), the keys of splitFuncs.
PLAIN == "plain"
SPLIT == "split"
QUOTED == "quoted"
STICKY == "sticky"

\* Symbols.COMMAND_CANCELLED.
COMMAND_CANCELLED == "COMMAND_CANCELLED"

\* What calling parseFuncs[matchType] throws when there is no such entry.
TYPE_ERROR == "TypeError"

\* An Argument: index and limit are <<>> when unset (null, Infinity) and
\* <<n>> when set; prefix is a string (isArray FALSE, one value) or an array.
Arg(id, match, index, limit, isArray, values, allow) ==
    [id |-> id, match |-> match, index |-> index, limit |-> limit,
     isArray |-> isArray, values |-> values, allow |-> allow]

\* The elements of this.args built by the constructor: a bound cancel
\* function, an Argument, or an array of Arguments.
ProbeSlot == [kind |-> "function", members |-> <<>>]
SingleSlot(a) == [kind |-> "argument", members |-> <<a>>]
GroupSlot(as) == [kind |-> "array", members |-> as]

\* Command._splitText: custom is what a split function returns (<<>> for a
\* falsy return), used only when this.split is a function; a split value
\* that is no key of splitFuncs is a one-character separator.
SplitText(split, c, custom) ==
    IF split = FUNCTION THEN custom
    ELSE IF split = PLAIN THEN MatchPlain(c, 1)
    ELSE IF split = SPLIT THEN SplitChar(c, " ", <<>>)
    ELSE IF split = QUOTED THEN MatchQuoted(c, 1)
    ELSE IF split = STICKY THEN MatchSticky(c, 1)
    ELSE IF split = NONE THEN <<c>>
    ELSE SplitChar(c, split, <<>>)

\* isQuoted of Command.parse.
IsQuoted(split, wordsIsQuoted) ==
    split = QUOTED \/ split = STICKY \/ wordsIsQuoted

\* ------------------------------------------------------- prefix extractor
\* pushPrefix of Command._getPrefixes: the descriptors one Argument adds.
PushPrefix(arg) ==
    IF arg.match = PREFIX \/ arg.match = FLAG
    THEN [n \in 1..Len(arg.values) |->
             [value |-> Lower(arg.values[n]), flag |-> arg.match = FLAG]]
    ELSE <<>>

RECURSIVE PushAll(_)
PushAll(members) ==
    IF members = <<>> THEN <<>>
    ELSE PushPrefix(Head(members)) \o PushAll(Tail(members))

\* Command._getPrefixes over this.args: arrays are flattened, a cancel
\* function has neither match nor prefix and adds nothing.
RECURSIVE GetPrefixes(_)
GetPrefixes(slots) ==
    IF slots = <<>> THEN <<>>
    ELSE PushAll(Head(slots).members) \o GetPrefixes(Tail(slots))

\* ------------------------------------------------------ positional filter
\* A test that treats a flag value as a prefix.
PrefixHitStarts(p, w) == StartsWith(Lower(w), p.value)

\* The test of prefixes.some(...) for one descriptor and one trimmed word.
PrefixHit(p, w) ==
    IF ~p.flag THEN StartsWith(Lower(w), p.value) ELSE Lower(w) = p.value

\* The callback of words.filter in Command.parse: TRUE when w is kept.
KeepWord(prefixes, w) ==
    ~ \E n \in 1..Len(prefixes) : PrefixHit(prefixes[n], Trim(w))

\* noPrefixWords of Command.parse.
NoPrefixWords(ws, prefixes) == SelectSeq(ws, LAMBDA w : KeepWord(prefixes, w))

\* ------------------------------------------------------- match dispatcher
\* index = arg.index != null ? arg.index : index.
EffIndex(arg, index) == IF arg.index # <<>> THEN arg.index[1] ELSE index

\* index + arg.limit as the end of a slice of an array of length n
\* (arg.limit is Infinity when unset).
SliceEnd(arg, index, n) == IF arg.limit = <<>> THEN n ELSE index + arg.limit[1]

\* A de-quoting step that trims every word.
DequoteTrimmed(isQuoted, word) ==
    IF isQuoted /\ IsQuotedRun(Trim(word))
    THEN SubSeq(Trim(word), 2, Len(Trim(word)) - 1)
    ELSE Trim(word)

\* The de-quoting step shared by WORD and PREFIX.
Dequote(isQuoted, word) ==
    IF isQuoted /\ IsQuotedRun(Trim(word))
    THEN SubSeq(Trim(word), 2, Len(Trim(word)) - 1)
    ELSE word

\* array[index] || '' for an array of strings.
At(ws, index) == IF index < Len(ws) THEN ws[index + 1] ELSE <<>>

\* parseFuncs[WORD]: the text bound to arg.process.
WordText(arg, index, npw, isQuoted) ==
    Dequote(isQuoted, At(npw, EffIndex(arg, index)))

\* joiner of parseFuncs[REST] and parseFuncs[TEXT].
Joiner(split) == IF split = SPLIT THEN <<" ">> ELSE <<>>

\* parseFuncs[REST]: the text bound to arg.process.
RestText(arg, index, npw, split) ==
    LET ix == EffIndex(arg, index)
    IN  Join(Slice(npw, ix, SliceEnd(arg, ix, Len(npw))), Joiner(split))

\* wordArr of parseFuncs[SEPARATE].
SeparateWords(arg, index, npw) ==
    LET ix == EffIndex(arg, index)
    IN  Slice(npw, ix, SliceEnd(arg, ix, Len(npw)))

\* parseFuncs[PREFIX], the scan: token n (1-based) of words, then the
\* earlier ones; the result is [hit, prefixUsed, wordFound].
FirstPrefix(arg, word) ==
    LET hits == {n \in 1..Len(arg.values) : StartsWith(word, Lower(arg.values[n]))}
    IN  IF hits = {} THEN 0 ELSE SetMin(hits)

RECURSIVE PrefixScan(_, _, _)
PrefixScan(arg, ws, n) ==
    IF n = 0 THEN [hit |-> FALSE, prefixUsed |-> <<>>, wordFound |-> <<>>]
    ELSE LET word == Lower(Trim(ws[n]))
         IN  IF arg.isArray
             THEN IF FirstPrefix(arg, word) # 0
                  THEN [hit |-> TRUE, prefixUsed |-> arg.values[FirstPrefix(arg, word)],
                        wordFound |-> word]
                  ELSE PrefixScan(arg, ws, n - 1)
             ELSE IF StartsWith(word, Lower(arg.values[1]))
                  THEN [hit |-> TRUE, prefixUsed |-> arg.values[1], wordFound |-> word]
                  ELSE PrefixScan(arg, ws, n - 1)

\* parseFuncs[PREFIX]: the text bound to arg.process.
PrefixText(arg, ws, isQuoted) ==
    LET r == PrefixScan(arg, ws, Len(ws))
    IN  IF r.wordFound # <<>> /\ r.prefixUsed # <<>>
        THEN Dequote(isQuoted, ReplaceFirst(r.wordFound, r.prefixUsed))
        ELSE r.wordFound

\* parseFuncs[FLAG], the scan: flagFound after tokens n, n-1, .. 1 of words.
\* With an array of prefixes the inner break leaves the scan of the words
\* running; with a single prefix the scan stops at the first hit.
RECURSIVE FlagScan(_, _, _, _)
FlagScan(arg, ws, n, flagFound) ==
    IF n = 0 THEN flagFound
    ELSE LET word == Lower(Trim(ws[n]))
         IN  IF arg.isArray
             THEN FlagScan(arg, ws, n - 1,
                      flagFound \/ \E k \in 1..Len(arg.values) : word = Lower(arg.values[k]))
             ELSE IF word = Lower(arg.values[1]) THEN TRUE
                  ELSE FlagScan(arg, ws, n - 1, flagFound)

\* flagFound of parseFuncs[FLAG].
FlagFound(arg, ws) == FlagScan(arg, ws, Len(ws), FALSE)

\* A flag value that ignores what arg.default resolved to.
FlagValuePlain(flagFound, defaultTruthy) == flagFound

\* inverse ? flagFound : !flagFound, for the value arg.default resolved to.
FlagValue(flagFound, defaultTruthy) ==
    LET inverse == ~defaultTruthy
    IN  IF inverse THEN flagFound ELSE ~flagFound

\* parseFuncs[TEXT]: the text bound to arg.process.
TextText(arg, npw, split) ==
    LET ix == IF arg.index = <<>> THEN 0 ELSE arg.index[1]
    IN  Join(Slice(npw, ix, SliceEnd(arg, ix, Len(npw))), Joiner(split))

\* parseFuncs[CONTENT]: the text bound to arg.process.
ContentText(arg, c) ==
    LET ix == IF arg.index = <<>> THEN 0 ELSE arg.index[1]
        parts == SplitChar(c, " ", <<>>)
    IN  Join(Slice(parts, ix, SliceEnd(arg, ix, Len(parts))), <<" ">>)

\* A list of the positional modes that leaves SEPARATE out.
PositionalNoSeparate(matchType) == matchType \in {WORD, REST}

\* [WORD, REST, SEPARATE].includes(matchType).
Positional(matchType) == matchType \in {WORD, REST, SEPARATE}

\* ----------------------------------------------------------- environment
\* What a cancel function may return: nothing, false, true, a falsy value
\* that is neither (0 or ''), a payload to send.
CancelReturns == {"undefined", "false", "true", "0", "aborted"}

\* A test that stops the call on truthy values only.
CancelStopsTruthy(cancel) == cancel \notin {"undefined", "false", "0"}

\* A test that lets false stop the call too.
CancelStopsOnFalse(cancel) == cancel # "undefined"

\* cancel != null && cancel !== false
CancelStops(cancel) == cancel # "undefined" /\ cancel # "false"

\* A cancel branch that never sends.
CancelSendsNever(cancel) == FALSE

\* cancel && cancel !== true
CancelSends(cancel) == cancel \notin {"undefined", "false", "0", "true"}

\* What arg.process may resolve to, and what it may reject with.
ProcessValues == {"v1", "v2"}
ProcessErrors == {"e1", COMMAND_CANCELLED}

\* What message.channel.send and arg.default may reject with.
SendErrors == {"sendFailed"}
DefaultErrors == {"e2"}

\* What a split function may return (a falsy return counts as no words),
\* with the isQuoted property of the array.
SplitReturns ==
    {[words |-> <<>>, isQuoted |-> FALSE],
     [words |-> << <<" ", "-", "A", " ">>, <<QUOTE, "a", QUOTE, " ">> >>, isQuoted |-> TRUE],
     [words |-> << <<"A", " ", "a">>, <<" ", "a">> >>, isQuoted |-> FALSE]}

\* Values stored in processed: what arg.process resolved to, the boolean of
\* a FLAG, the array res of a SEPARATE.
ValueOf(v) == [kind |-> "value", items |-> <<v>>]
BooleanOf(b) == [kind |-> "boolean", items |-> <<IF b THEN "true" ELSE "false">>]
ArrayOf(res) == [kind |-> "array", items |-> res]

\* A mapping replaced by one that holds the new entry only.
PutAlone(processed, id, v) == [x \in {id} |-> v]

\* processed[id] = v
Put(processed, id, v) ==
    [x \in (DOMAIN processed) \cup {id} |-> IF x = id THEN v ELSE processed[x]]

\* ----------------------------------------------------------------- inputs
ExampleContents ==
    {<<"a", " ", " ", "b", " ", " ", " ", "c">>,
     <<"1", " ", "2", " ", "3">>,
     <<"-", QUOTE, "A", " ", "a", QUOTE>>,
     <<"k", "e", "y", "=", QUOTE, "a", " ", "b", QUOTE>>,
     <<" ", "-", "A", " ", "a", "a", " ", "A", " ", QUOTE, "a", QUOTE>>,
     <<"a", " ", "A">>}

Contents == (UNION {[1..n -> Chars] : n \in 0..MaxLen}) \cup ExampleContents

NoIndex == <<>>
NoLimit == <<>>
DEFAULT == "default"

ArgLists ==
    {<<>>,
     <<SingleSlot(Arg("w0", WORD, NoIndex, NoLimit, FALSE, <<>>, DEFAULT)),
       SingleSlot(Arg("w1", WORD, NoIndex, NoLimit, FALSE, <<>>, DEFAULT))>>,
     <<SingleSlot(Arg("s0", SEPARATE, NoIndex, NoLimit, FALSE, <<>>, DEFAULT)),
       SingleSlot(Arg("w1", WORD, <<0>>, NoLimit, FALSE, <<>>, FUNCTION))>>,
     <<SingleSlot(Arg("w0", WORD, NoIndex, NoLimit, FALSE, <<>>, FUNCTION)),
       ProbeSlot,
       SingleSlot(Arg("s2", SEPARATE, NoIndex, <<2>>, FALSE, <<>>, DEFAULT))>>,
     <<SingleSlot(Arg("f0", FLAG, NoIndex, NoLimit, FALSE, << <<"A">> >>, DEFAULT)),
       SingleSlot(Arg("p1", PREFIX, NoIndex, NoLimit, FALSE, << <<"-">> >>, FUNCTION)),
       SingleSlot(Arg("r2", REST, NoIndex, <<2>>, FALSE, <<>>, DEFAULT))>>,
     <<SingleSlot(Arg("p0", PREFIX, NoIndex, NoLimit, TRUE, << <<"A">>, <<"-">> >>, DEFAULT)),
       SingleSlot(Arg("f1", FLAG, NoIndex, NoLimit, TRUE, << <<"-", "a">>, <<QUOTE>> >>, DEFAULT)),
       SingleSlot(Arg("w2", WORD, NoIndex, NoLimit, FALSE, <<>>, DEFAULT))>>,
     <<GroupSlot(<<Arg("g0", WORD, NoIndex, NoLimit, FALSE, <<>>, FUNCTION),
                   Arg("g1", FLAG, NoIndex, NoLimit, FALSE, << <<"a">> >>, FUNCTION),
                   Arg("g2", REST, <<1>>, NoLimit, FALSE, <<>>, FUNCTION)>>),
       SingleSlot(Arg("w1", WORD, NoIndex, NoLimit, FALSE, <<>>, DEFAULT))>>,
     <<SingleSlot(Arg("d0", FUNCTION, NoIndex, NoLimit, FALSE, << <<"-">> >>, DEFAULT)),
       SingleSlot(Arg("w1", WORD, NoIndex, NoLimit, FALSE, <<>>, DEFAULT))>>,
     <<SingleSlot(Arg("c0", CONTENT, <<1>>, <<2>>, FALSE, <<>>, DEFAULT)),
       SingleSlot(Arg("t1", TEXT, NoIndex, NoLimit, FALSE, <<>>, DEFAULT)),
       SingleSlot(Arg("n2", NONE, NoIndex, NoLimit, FALSE, <<>>, DEFAULT))>>}

Splits == {PLAIN, SPLIT, QUOTED, STICKY, NONE, FUNCTION, "-"}

\* ------------------------------------------------------------------ state
VARIABLES
    args,    \* this.args
    split,   \* this.split
    calls    \* the parse calls: each one's closure variables and position

vars == <<args, split, calls>>

\* The evaluator a call is suspended in (processFunc and its locals).
NoEvaluator ==
    [member |-> 0, matchType |-> "", text |-> <<>>, separate |-> FALSE,
     wordArr |-> <<>>, res |-> <<>>, flagFound |-> FALSE]

\* A call of parse that has not started.
IdleCall ==
    [pc |-> "idle", content |-> <<>>, words |-> <<>>, isQuoted |-> FALSE,
     noPrefixWords |-> <<>>, processed |-> <<>>, wordIndex |-> 0, i |-> 0,
     evaluator |-> NoEvaluator, result |-> <<>>, error |-> "",
     sent |-> <<>>, log |-> <<>>]

\* One entry of the history of a call: a function of the environment was
\* invoked or settled. keys are the keys of processed at that moment.
Event(ev, slot, member, text, val, processed) ==
    [ev |-> ev, slot |-> slot, member |-> member, text |-> text, val |-> val,
     keys |-> DOMAIN processed]

InitCalls(n) ==
    /\ args \in ArgLists
    /\ split \in Splits
    /\ calls = [c \in 1..n |-> IdleCall]

Init == InitCalls(1)

\* ---------------------------------------------------------------- actions
\* A failure that is caught and skipped: the evaluation goes on with the
\* next slot.
ThrowCaught(call, e, log) ==
    [call EXCEPT !.pc = "run", !.i = @ + 1, !.evaluator = NoEvaluator, !.log = log]

\* An async function throws e: its promise rejects with e.
Throw(call, e, log) == [call EXCEPT !.pc = "rejected", !.error = e, !.log = log]

\* A push at the front of res.
PushFront(res, v) == <<v>> \o res

\* res.push(v)
Push(res, v) == Append(res, v)

\* A loop that stops after the first word.
LoopDoneOnce(res, wordArr) == TRUE

\* The for-of loop over wordArr has run out of words.
LoopDone(res, wordArr) == Len(res) >= Len(wordArr)

\* A test that never takes the early return.
NoArgsNever(slots) == FALSE

\* !this.args.length
NoArgs(slots) == Len(slots) = 0

\* A cursor carried over from the calls that started before.
CarriedCursor(cs, c) ==
    cs[CHOOSE d \in DOMAIN cs : \A e \in DOMAIN cs : cs[e].wordIndex <= cs[d].wordIndex].wordIndex

\* let wordIndex = 0: every call of parse has a cursor of its own.
FreshCursor(cs, c) == 0

\* parse(content, message) up to the call of process(0), for a content of
\* contents. process(0), and every process(i + 1), runs in the same turn as
\* the code before it; each is a step of its own here, which only adds
\* intermediate states of variables that are local to the call.
ParseOf(c, contents) ==
    /\ calls[c].pc = "idle"
    /\ \E content \in contents :
       \E custom \in (IF split = FUNCTION /\ ~NoArgs(args) THEN SplitReturns
                      ELSE {[words |-> <<>>, isQuoted |-> FALSE]}) :
          LET ws == SplitText(split, content, custom.words)
          IN  calls' = [calls EXCEPT ![c] =
                IF NoArgs(args)
                THEN [@ EXCEPT !.pc = "resolved", !.content = content]
                ELSE [@ EXCEPT
                        !.pc = "run",
                        !.content = content,
                        !.words = ws,
                        !.isQuoted = IsQuoted(split, custom.isQuoted),
                        !.noPrefixWords = NoPrefixWords(ws, GetPrefixes(args)),
                        !.processed = <<>>,
                        !.wordIndex = FreshCursor(calls, c),
                        !.log = <<Event("splitText", 0, 0, content, "", <<>>)>>]]
    /\ UNCHANGED <<args, split>>

\* parse(content, message) for any of the enumerated contents.
Parse(c) == ParseOf(c, Contents)

\* A test of the end of the list that never holds.
AtEndNever(i, slots) == FALSE

\* i === this.args.length
AtEnd(i, slots) == i = Len(slots)

\* process(i) with i === this.args.length.
Finish(c) ==
    /\ calls[c].pc = "run"
    /\ AtEnd(calls[c].i, args)
    /\ calls' = [calls EXCEPT ![c] =
                   [@ EXCEPT !.pc = "resolved", !.result = calls[c].processed]]
    /\ UNCHANGED <<args, split>>

\* process(i) on a cancel function.
Cancel(c) ==
    /\ calls[c].pc = "run"
    /\ calls[c].i < Len(args)
    /\ args[calls[c].i + 1].kind = "function"
    /\ \E cancel \in CancelReturns :
          LET call == calls[c]
              called == Append(call.log,
                               Event("cancel", call.i, 0, <<>>, cancel, call.processed))
          IN  calls' = [calls EXCEPT ![c] =
                IF CancelStops(cancel)
                THEN IF CancelSends(cancel)
                     THEN [call EXCEPT
                             !.pc = "send",
                             !.sent = Append(@, cancel),
                             !.log = Append(called,
                                        Event("send", call.i, 0, <<>>, cancel, call.processed))]
                     ELSE Throw(call, COMMAND_CANCELLED, called)
                ELSE [call EXCEPT !.i = @ + 1, !.log = called]]
    /\ UNCHANGED <<args, split>>

\* await message.channel.send(cancel) resumes: throw COMMAND_CANCELLED.
SendResolves(c) ==
    /\ calls[c].pc = "send"
    /\ calls' = [calls EXCEPT ![c] =
                   Throw(@, COMMAND_CANCELLED,
                         Append(@.log, Event("sendEnd", @.i, 0, <<>>, "", @.processed)))]
    /\ UNCHANGED <<args, split>>

\* await message.channel.send(cancel) throws.
SendRejects(c) ==
    /\ calls[c].pc = "send"
    /\ \E e \in SendErrors :
          calls' = [calls EXCEPT ![c] =
                      Throw(@, e, Append(@.log, Event("sendEnd", @.i, 0, <<>>, e,
                                                      @.processed)))]
    /\ UNCHANGED <<args, split>>

\* A search that calls allow on every member.
AllowCallsAll(members, j) == Len(members)

\* The members whose allow is called, for a choice j of the first member
\* whose allow returns true (0: none does): arg.find stops at j.
AllowCalls(members, j) == IF j = 0 THEN Len(members) ELSE j

\* The choices of j the allow predicates admit: an Argument with the default
\* allow is always allowed.
AllowChoices(members) ==
    {j \in 0..Len(members) :
        \A n \in 1..(AllowCalls(members, j) - (IF j = 0 THEN 0 ELSE 1)) :
            members[n].allow = FUNCTION}

RECURSIVE AllowEvents(_, _, _, _, _)
AllowEvents(slot, j, n, upTo, processed) ==
    IF n > upTo THEN <<>>
    ELSE <<Event("allow", slot, n, <<>>, IF n = j THEN "true" ELSE "false", processed)>>
         \o AllowEvents(slot, j, n + 1, upTo, processed)

\* A dispatcher whose CONTENT entry reads the filtered pool as TEXT does.
BoundTextFiltered(call, arg, matchType) ==
    CASE matchType = WORD -> WordText(arg, call.wordIndex, call.noPrefixWords, call.isQuoted)
      [] matchType = REST -> RestText(arg, call.wordIndex, call.noPrefixWords, split)
      [] matchType = PREFIX -> PrefixText(arg, call.words, call.isQuoted)
      [] matchType = TEXT -> TextText(arg, call.noPrefixWords, split)
      [] matchType = CONTENT -> TextText(arg, call.noPrefixWords, split)
      [] OTHER -> <<>>

\* The text parseFuncs[matchType](arg, wordIndex) binds to arg.process.
BoundText(call, arg, matchType) ==
    CASE matchType = WORD -> WordText(arg, call.wordIndex, call.noPrefixWords, call.isQuoted)
      [] matchType = REST -> RestText(arg, call.wordIndex, call.noPrefixWords, split)
      [] matchType = PREFIX -> PrefixText(arg, call.words, call.isQuoted)
      [] matchType = TEXT -> TextText(arg, call.noPrefixWords, split)
      [] matchType = CONTENT -> ContentText(arg, call.content)
      [] OTHER -> <<>>

\* A SEPARATE evaluator that writes nothing before its loop.
SeparateStartLate(processed, id) == processed

\* const res = []; processed[arg.id] = res;
SeparateStart(processed, id) == Put(processed, id, ArrayOf(<<>>))

\* A dispatcher with an entry for every mode.
HasParseFuncAlways(matchType) == TRUE

\* parseFuncs[matchType] is a function.
HasParseFunc(matchType) == matchType \in MatchModes

\* process(i) from the dispatch on: parseFuncs[matchType](arg, wordIndex),
\* wordIndex++, and processFunc(message, processed) up to its first await.
Dispatch(call, j, matchType, log) ==
    LET arg == args[call.i + 1].members[j]
        wordArr == SeparateWords(arg, call.wordIndex, call.noPrefixWords)
        index == IF Positional(matchType) THEN call.wordIndex + 1 ELSE call.wordIndex
    IN  IF ~HasParseFunc(matchType)
        THEN Throw(call, TYPE_ERROR, log)
        ELSE IF matchType = FLAG
        THEN [call EXCEPT
                !.pc = "default",
                !.wordIndex = index,
                !.evaluator = [NoEvaluator EXCEPT
                                 !.member = j, !.matchType = matchType,
                                 !.flagFound = FlagFound(arg, call.words)],
                !.log = Append(log, Event("default", call.i, j, <<>>, "", call.processed))]
        ELSE IF matchType = SEPARATE /\ wordArr # <<>>
        THEN [call EXCEPT
                !.pc = "process",
                !.wordIndex = index,
                !.processed = SeparateStart(@, arg.id),
                !.evaluator = [NoEvaluator EXCEPT
                                 !.member = j, !.matchType = matchType,
                                 !.separate = TRUE, !.wordArr = wordArr,
                                 !.text = wordArr[1]],
                !.log = Append(log, Event("process", call.i, j, wordArr[1], "",
                                          SeparateStart(call.processed, arg.id)))]
        ELSE [call EXCEPT
                !.pc = "process",
                !.wordIndex = index,
                !.evaluator = [NoEvaluator EXCEPT
                                 !.member = j, !.matchType = matchType,
                                 !.text = BoundText(call, arg, matchType)],
                !.log = Append(log, Event("process", call.i, j,
                                          BoundText(call, arg, matchType), "",
                                          call.processed))]

\* process(i) on an Argument or an array of Arguments.
Process(c) ==
    /\ calls[c].pc = "run"
    /\ calls[c].i < Len(args)
    /\ args[calls[c].i + 1].kind # "function"
    /\ LET call == calls[c]
           members == args[call.i + 1].members
       IN  \E j \in AllowChoices(members) :
              LET allowed == call.log \o
                      AllowEvents(call.i, j, 1, AllowCalls(members, j), call.processed)
              IN  IF j = 0
                  THEN calls' = [calls EXCEPT ![c] =
                                   [call EXCEPT !.i = @ + 1, !.log = allowed]]
                  ELSE IF members[j].match = FUNCTION
                  THEN \E matchType \in MatchModes \cup {BOGUS} :
                          calls' = [calls EXCEPT ![c] =
                            Dispatch(call, j, matchType,
                                Append(allowed, Event("match", call.i, j, <<>>, matchType,
                                                      call.processed)))]
                  ELSE calls' = [calls EXCEPT ![c] =
                                   Dispatch(call, j, members[j].match, allowed)]
    /\ UNCHANGED <<args, split>>

\* An await of arg.process resumes with the value v.
ProcessResolves(c) ==
    /\ calls[c].pc = "process"
    /\ \E v \in ProcessValues :
          LET call == calls[c]
              ev == call.evaluator
              arg == args[call.i + 1].members[ev.member]
              res == Push(ev.res, v)
              ended == Append(call.log,
                              Event("processEnd", call.i, ev.member, ev.text, v,
                                    call.processed))
          IN  calls' = [calls EXCEPT ![c] =
                IF ev.separate
                THEN IF ~LoopDone(res, ev.wordArr)
                     THEN [call EXCEPT
                             !.processed = Put(@, arg.id, ArrayOf(res)),
                             !.evaluator = [ev EXCEPT !.res = res,
                                                      !.text = ev.wordArr[Len(res) + 1]],
                             !.log = Append(ended,
                                        Event("process", call.i, ev.member,
                                              ev.wordArr[Len(res) + 1], "",
                                              Put(call.processed, arg.id, ArrayOf(res))))]
                     ELSE [call EXCEPT
                             !.pc = "run",
                             !.processed = Put(@, arg.id, ArrayOf(res)),
                             !.evaluator = NoEvaluator,
                             !.i = @ + 1,
                             !.log = ended]
                ELSE [call EXCEPT
                        !.pc = "run",
                        !.processed = Put(@, arg.id, ValueOf(v)),
                        !.evaluator = NoEvaluator,
                        !.i = @ + 1,
                        !.log = ended]]
    /\ UNCHANGED <<args, split>>

\* An await of arg.process throws e.
ProcessRejects(c) ==
    /\ calls[c].pc = "process"
    /\ \E e \in ProcessErrors :
          calls' = [calls EXCEPT ![c] =
                      Throw(@, e, Append(@.log,
                                         Event("processEnd", @.i, @.evaluator.member,
                                               @.evaluator.text, e, @.processed)))]
    /\ UNCHANGED <<args, split>>

\* await arg.default(msg, processed) resumes with a truthy or a falsy value.
DefaultResolves(c) ==
    /\ calls[c].pc = "default"
    /\ \E truthy \in BOOLEAN :
          LET call == calls[c]
              ev == call.evaluator
              arg == args[call.i + 1].members[ev.member]
          IN  calls' = [calls EXCEPT ![c] =
                [call EXCEPT
                   !.pc = "run",
                   !.processed = Put(@, arg.id, BooleanOf(FlagValue(ev.flagFound, truthy))),
                   !.evaluator = NoEvaluator,
                   !.i = @ + 1,
                   !.log = Append(@, Event("defaultEnd", call.i, ev.member, <<>>,
                                           IF truthy THEN "truthy" ELSE "falsy",
                                           call.processed))]]
    /\ UNCHANGED <<args, split>>

\* await arg.default(msg, processed) throws e.
DefaultRejects(c) ==
    /\ calls[c].pc = "default"
    /\ \E e \in DefaultErrors :
          calls' = [calls EXCEPT ![c] =
                      Throw(@, e, Append(@.log,
                                         Event("defaultEnd", @.i, @.evaluator.member,
                                               <<>>, e, @.processed)))]
    /\ UNCHANGED <<args, split>>

Next ==
    \/ \E c \in DOMAIN calls : Parse(c)
    \/ \E c \in DOMAIN calls : Finish(c)
    \/ \E c \in DOMAIN calls : Cancel(c)
    \/ \E c \in DOMAIN calls : SendResolves(c)
    \/ \E c \in DOMAIN calls : SendRejects(c)
    \/ \E c \in DOMAIN calls : Process(c)
    \/ \E c \in DOMAIN calls : ProcessResolves(c)
    \/ \E c \in DOMAIN calls : ProcessRejects(c)
    \/ \E c \in DOMAIN calls : DefaultResolves(c)
    \/ \E c \in DOMAIN calls : DefaultRejects(c)

Spec == Init /\ [][Next]_vars

\* ---------------------------------------- several calls on one command
\* The number of parse calls made on the same Command object.
NumCalls == 2

\* The contents, the slot list and the strategies of the concurrent calls:
\* a cancel function, then a FLAG whose marker is filtered out or, when the
\* FLAG is not allowed, a WORD that reads the cursor, so that every kind of
\* step can interleave.
ContentsOfCalls == {<<"-", " ", "a">>, <<"A">>}

ArgListsOfCalls ==
    {<<ProbeSlot,
       GroupSlot(<<Arg("f1", FLAG, NoIndex, NoLimit, FALSE, << <<"-">> >>, FUNCTION),
                   Arg("w1", WORD, NoIndex, NoLimit, FALSE, <<>>, DEFAULT)>>)>>}

SplitsOfCalls == {PLAIN}

InitConcurrent ==
    /\ args \in ArgListsOfCalls
    /\ split \in SplitsOfCalls
    /\ calls = [c \in 1..NumCalls |-> IdleCall]

\* Any call takes its next step: a call starts at any moment, and a call
\* suspended at an await resumes at any moment.
NextConcurrent ==
    \/ \E c \in DOMAIN calls : ParseOf(c, ContentsOfCalls)
    \/ \E c \in DOMAIN calls : Finish(c)
    \/ \E c \in DOMAIN calls : Cancel(c)
    \/ \E c \in DOMAIN calls : SendResolves(c)
    \/ \E c \in DOMAIN calls : SendRejects(c)
    \/ \E c \in DOMAIN calls : Process(c)
    \/ \E c \in DOMAIN calls : ProcessResolves(c)
    \/ \E c \in DOMAIN calls : ProcessRejects(c)
    \/ \E c \in DOMAIN calls : DefaultResolves(c)
    \/ \E c \in DOMAIN calls : DefaultRejects(c)

SpecConcurrent == InitConcurrent /\ [][NextConcurrent]_vars

\* ------------------------------------------------- the later slots
\* The slot lists of the calls that look at what a slot sees of the slots
\* before it: no slot at all; a cancel function and a SEPARATE slot behind a
\* WORD; a match mode outside the known ones, declared or returned by a mode
\* function, behind a WORD; a CONTENT slot behind a FLAG and a WORD, with a
\* limit and no index; and a CONTENT slot with both, before a TEXT and a
\* NONE slot.
ArgListsOfModes ==
    {<<>>,
     <<SingleSlot(Arg("w0", WORD, NoIndex, NoLimit, FALSE, <<>>, FUNCTION)),
       ProbeSlot,
       SingleSlot(Arg("s2", SEPARATE, NoIndex, <<2>>, FALSE, <<>>, DEFAULT))>>,
     <<SingleSlot(Arg("w0", WORD, NoIndex, NoLimit, FALSE, <<>>, FUNCTION)),
       SingleSlot(Arg("b1", BOGUS, NoIndex, NoLimit, FALSE, <<>>, DEFAULT)),
       SingleSlot(Arg("w2", WORD, NoIndex, NoLimit, FALSE, <<>>, DEFAULT))>>,
     <<SingleSlot(Arg("w0", WORD, NoIndex, NoLimit, FALSE, <<>>, DEFAULT)),
       SingleSlot(Arg("d1", FUNCTION, NoIndex, NoLimit, FALSE, << <<"-">> >>, DEFAULT))>>,
     <<SingleSlot(Arg("f0", FLAG, NoIndex, NoLimit, FALSE, << <<"-", "A">> >>, DEFAULT)),
       SingleSlot(Arg("w1", WORD, NoIndex, NoLimit, FALSE, <<>>, DEFAULT)),
       SingleSlot(Arg("c2", CONTENT, NoIndex, <<2>>, FALSE, <<>>, DEFAULT))>>,
     <<SingleSlot(Arg("c0", CONTENT, <<1>>, <<2>>, FALSE, <<>>, DEFAULT)),
       SingleSlot(Arg("t1", TEXT, NoIndex, NoLimit, FALSE, <<>>, DEFAULT)),
       SingleSlot(Arg("n2", NONE, NoIndex, NoLimit, FALSE, <<>>, DEFAULT))>>}

InitModes ==
    /\ args \in ArgListsOfModes
    /\ split \in Splits
    /\ calls = [c \in 1..1 |-> IdleCall]

SpecModes == InitModes /\ [][Next]_vars

\* ---------------------------------------------------------- progress
\* The steps of call c that the program takes by itself: process(i) runs on
\* when it is called, and the continuation of an async function runs once
\* the promise it awaits has settled.
Continues(c) == Finish(c) \/ Cancel(c) \/ Process(c)

\* What a call relies on from outside: a Resolver invocation, a default
\* provider and a send that have started complete, with a value or with a
\* failure. (Allow predicates, mode functions and cancel functions are
\* called synchronously, within the step that calls them.)
Fairness ==
    \A c \in 1..1 :
        /\ WF_vars(Continues(c))
        /\ WF_vars(ProcessResolves(c) \/ ProcessRejects(c))
        /\ WF_vars(DefaultResolves(c) \/ DefaultRejects(c))
        /\ WF_vars(SendResolves(c) \/ SendRejects(c))

\* Longest enumerated content of the calls whose progress is followed.
MaxLiveLen == 3

\* Every content of letters and spaces up to that length, which gives a
\* SEPARATE slot up to two tokens to go through, and the example contents,
\* which give it three.
ContentsOfLive ==
    (UNION {[1..n -> {"a", " "}] : n \in 0..MaxLiveLen}) \cup ExampleContents

\* The strategies of those calls: the tokens decide how many invocations a
\* slot makes, not whether process(i) goes on, so three strategies that cut
\* the content at different places are followed.
SplitsOfLive == {PLAIN, SPLIT, "-"}

InitLive ==
    /\ args \in ArgLists
    /\ split \in SplitsOfLive
    /\ calls = [c \in 1..1 |-> IdleCall]

NextLive ==
    \/ \E c \in DOMAIN calls : ParseOf(c, ContentsOfLive)
    \/ \E c \in DOMAIN calls : Finish(c)
    \/ \E c \in DOMAIN calls : Cancel(c)
    \/ \E c \in DOMAIN calls : SendResolves(c)
    \/ \E c \in DOMAIN calls : SendRejects(c)
    \/ \E c \in DOMAIN calls : Process(c)
    \/ \E c \in DOMAIN calls : ProcessResolves(c)
    \/ \E c \in DOMAIN calls : ProcessRejects(c)
    \/ \E c \in DOMAIN calls : DefaultResolves(c)
    \/ \E c \in DOMAIN calls : DefaultRejects(c)

SpecLive == InitLive /\ [][NextLive]_vars /\ Fairness

\* ------------------------------------------------ the quoting strategies
\* Longest enumerated content of the calls that compare quoted and sticky.
MaxTokenLen == 5

KeyAB == <<"k", "e", "y", "=", QUOTE, "a", " ", "b", QUOTE>>

\* Every content of letters, double quotes and spaces up to that length, and
\* the example of the ArgumentSplit documentation.
ContentsOfTokenizer ==
    (UNION {[1..n -> {"a", QUOTE, " "}] : n \in 0..MaxTokenLen}) \cup {KeyAB}

InitTokenizer ==
    /\ args \in ArgListsOfCalls
    /\ split \in {QUOTED, STICKY}
    /\ calls = [c \in 1..1 |-> IdleCall]

NextTokenizer ==
    \/ \E c \in DOMAIN calls : ParseOf(c, ContentsOfTokenizer)
    \/ \E c \in DOMAIN calls : Finish(c)
    \/ \E c \in DOMAIN calls : Cancel(c)
    \/ \E c \in DOMAIN calls : SendResolves(c)
    \/ \E c \in DOMAIN calls : SendRejects(c)
    \/ \E c \in DOMAIN calls : Process(c)
    \/ \E c \in DOMAIN calls : ProcessResolves(c)
    \/ \E c \in DOMAIN calls : ProcessRejects(c)
    \/ \E c \in DOMAIN calls : DefaultResolves(c)
    \/ \E c \in DOMAIN calls : DefaultRejects(c)

SpecTokenizer == InitTokenizer /\ [][NextTokenizer]_vars

\* ------------------------------------------------- reading the history
\* The calls of parse that have started on a non-empty argument list.
Started == {c \in DOMAIN calls : calls[c].pc # "idle" /\ Len(args) # 0}

\* The history of a call without the tokenizer entry.
Calls(call) == SelectSeq(call.log, LAMBDA e : e.ev # "splitText")

\* The entries of a history for slot s whose kind is in kinds.
Of(log, s, kinds) == SelectSeq(log, LAMBDA e : e.slot = s /\ e.ev \in kinds)

Count(log, s, kinds) == Len(Of(log, s, kinds))

\* The member of slot s whose allow returned true in the history, 0 if none.
ActiveIn(log, s) ==
    LET yes == Of(log, s, {"allow"})
    IN  IF yes # <<>> /\ yes[Len(yes)].val = "true" THEN yes[Len(yes)].member ELSE 0

\* The match mode slot s resolved to in the history, "" if it had none.
ModeIn(log, s) ==
    LET m == Of(log, s, {"match"})
        a == ActiveIn(log, s)
    IN  IF m # <<>> THEN m[1].val
        ELSE IF a # 0 THEN args[s + 1].members[a].match
        ELSE ""

\* The number of slots before s that were active in WORD, REST or SEPARATE.
CursorIn(log, s) ==
    Cardinality({t \in 0..(s - 1) : ModeIn(log, t) \in {"word", "rest", "separate"}})

\* The window of slot s: the tokens of pool from the effective index on, at
\* most limit of them.
WindowIn(call, s, pool) ==
    LET arg == args[s + 1].members[ActiveIn(call.log, s)]
        from == IF arg.index = <<>> THEN CursorIn(call.log, s) ELSE arg.index[1]
        upto == IF arg.limit = <<>> \/ from + arg.limit[1] > Len(pool)
                THEN Len(pool) ELSE from + arg.limit[1]
    IN  [n \in 1..(IF upto > from THEN upto - from ELSE 0) |-> pool[from + n]]

\* The Resolver and default-provider invocations slot s needs to complete.
NeedsProcess(call, s) ==
    LET mode == ModeIn(call.log, s)
    IN  IF mode \notin MatchModes \/ mode = "flag" THEN 0
        ELSE IF mode = "separate"
        THEN LET win == WindowIn(call, s, call.noPrefixWords)
             IN  IF win # <<>> THEN Len(win) ELSE 1
        ELSE 1

\* Slot s has fully completed within the history log, need being the number
\* of Resolver and default-provider invocations it needs.
CompletedWith(log, s, need) ==
    LET ends == Of(log, s, {"processEnd"})
        defaultEnds == Count(log, s, {"defaultEnd"})
    IN  /\ Count(log, s, {"process"}) = Len(ends)
        /\ Count(log, s, {"default"}) = defaultEnds
        /\ \A n \in 1..Len(ends) : ends[n].val \in ProcessValues
        /\ Len(ends) = need
        /\ ModeIn(log, s) = "flag" => defaultEnds = 1

\* Slot s has fully completed within the history log of call.
Completed(call, log, s) == CompletedWith(log, s, NeedsProcess(call, s))

StartKinds == {"cancel", "allow", "match", "process", "default", "send"}

\* --------------------------------------------------------------- claims
\* C1: within one parse call the slots are evaluated strictly in list order
\* and never overlap: whenever a cancel function, an allow predicate, a mode
\* function, a default provider or a Resolver invocation starts for a slot,
\* no earlier invocation is still pending and every earlier slot that was
\* active has fully completed, every per-token invocation of a SEPARATE
\* slot included.
C1_Sequential ==
    \A c \in Started :
        LET call == calls[c]
            log == Calls(call)
            need == [s \in 0..(Len(args) - 1) |-> NeedsProcess(call, s)]
        IN  \A n \in 1..Len(log) :
               LET before == SubSeq(log, 1, n - 1)
               IN  /\ \A m \in 1..(n - 1) : log[m].slot <= log[n].slot
                   /\ log[n].ev \in StartKinds =>
                        /\ \A s \in 0..log[n].slot :
                              /\ Count(before, s, {"process"}) = Count(before, s, {"processEnd"})
                              /\ Count(before, s, {"default"}) = Count(before, s, {"defaultEnd"})
                        /\ \A s \in 0..(log[n].slot - 1) : CompletedWith(before, s, need[s])

\* A SEPARATE slot over two or more tokens has completed and a later slot's
\* Resolver has been invoked.
C1_Witness ==
    \E c \in Started :
        LET log == Calls(calls[c])
        IN  \E n \in 1..Len(log) :
               /\ log[n].ev = "process"
               /\ log[n].slot > 0
               /\ \E s \in 0..(log[n].slot - 1) :
                     /\ ModeIn(log, s) = "separate"
                     /\ Count(log, s, {"processEnd"}) >= 2

\* The positions of a history at which a cancel function returned a truthy
\* value other than true.
PayloadAt(log) ==
    {n \in 1..Len(log) :
        log[n].ev = "cancel" /\ log[n].val \notin {"undefined", "false", "0", "true"}}

\* C2: when a cancel function returns a truthy value other than true, that
\* value is sent to the channel exactly once, straight after the return and
\* with nothing else evaluated since; the call stays suspended until the
\* send has settled and, once the send has completed, is rejected with
\* COMMAND_CANCELLED (with the send's own failure if the send failed); no
\* later slot is evaluated and the call never resolves.
C2_CancelPayload ==
    \A c \in Started :
        LET call == calls[c]
            log == Calls(call)
        IN  \A n \in PayloadAt(log) :
               /\ Len(log) >= n + 1
               /\ log[n + 1].ev = "send" /\ log[n + 1].val = log[n].val
               /\ call.sent = <<log[n].val>>
               /\ Len(log) <= n + 2
               /\ \A m \in (n + 1)..Len(log) : log[m].slot = log[n].slot
               /\ call.pc \in {"send", "rejected"}
               /\ call.pc = "send" <=> Len(log) = n + 1
               /\ call.pc = "rejected" =>
                     /\ log[n + 2].ev = "sendEnd"
                     /\ call.error = IF log[n + 2].val = "" THEN COMMAND_CANCELLED
                                     ELSE log[n + 2].val
               /\ call.result = <<>>

\* A cancel function after an evaluated slot returned a payload, the send
\* completed and the call is rejected with COMMAND_CANCELLED.
C2_Witness ==
    \E c \in Started :
        LET call == calls[c]
            log == Calls(call)
        IN  /\ PayloadAt(log) # {}
            /\ call.pc = "rejected"
            /\ call.error = COMMAND_CANCELLED
            /\ call.sent = <<"aborted">>
            /\ call.i > 0
            /\ call.i + 1 < Len(args)

\* C3: for a SEPARATE slot whose window of the filtered pool holds n >= 1
\* tokens the Resolver is invoked once per token, in window order, each
\* invocation starting only after the previous one completed, and once the
\* slot has completed there were exactly n invocations and its value is the
\* array of their n results in that order; on an empty window the Resolver
\* is invoked exactly once, on the empty string.
C3_Separate ==
    \A c \in Started :
        LET call == calls[c]
            log == Calls(call)
        IN  \A s \in 0..(Len(args) - 1) :
               ModeIn(log, s) = "separate" =>
                  LET win == WindowIn(call, s, call.noPrefixWords)
                      expected == IF win = <<>> THEN << <<>> >> ELSE win
                      both == Of(log, s, {"process", "processEnd"})
                      starts == Of(log, s, {"process"})
                      ends == Of(log, s, {"processEnd"})
                      arg == args[s + 1].members[ActiveIn(log, s)]
                  IN  /\ \A n \in 1..Len(both) :
                            both[n].ev = IF n % 2 = 1 THEN "process" ELSE "processEnd"
                      /\ Len(starts) >= 1
                      /\ Len(starts) <= Len(expected)
                      /\ \A n \in 1..Len(starts) : starts[n].text = expected[n]
                      /\ call.i > s =>
                            /\ Len(starts) = Len(expected)
                            /\ Len(ends) = Len(expected)
                            /\ win # <<>> =>
                                  call.processed[arg.id] =
                                      [kind |-> "array",
                                       items |-> [n \in 1..Len(ends) |-> ends[n].val]]

\* A SEPARATE slot over the three tokens of "1 2 3" has completed with
\* results that differ from one token to the next.
C3_Witness ==
    \E c \in Started :
        LET call == calls[c]
        IN  /\ call.i > 0
            /\ ModeIn(Calls(call), 0) = "separate"
            /\ "s0" \in DOMAIN call.processed
            /\ call.noPrefixWords = << <<"1", " ">>, <<"2", " ">>, <<"3">> >>
            /\ call.processed["s0"].items = <<"v1", "v2", "v2">>

\* C4: in every state of a parse call wordIndex is the number of slots
\* processed so far that were active and resolved to WORD, REST or SEPARATE
\* (one per slot, whatever its explicit index or the size of its window;
\* other modes, skipped slots and cancel functions add nothing), and no step
\* decreases it.
C4_Cursor ==
    [][\A c \in DOMAIN calls :
          /\ calls'[c].wordIndex >= calls[c].wordIndex
          /\ calls'[c].wordIndex =
                IF Len(args) = 0 THEN 0 ELSE CursorIn(Calls(calls'[c]), Len(args))]_vars

\* The cursor is 2 after a SEPARATE slot over several tokens and a WORD slot
\* with an explicit index.
C4_Witness ==
    \E c \in Started :
        LET call == calls[c]
            log == Calls(call)
        IN  /\ call.wordIndex = 2
            /\ ModeIn(log, 0) = "separate"
            /\ Count(log, 0, {"processEnd"}) >= 2
            /\ ModeIn(log, 1) = "word"
            /\ args[2].members[1].index # <<>>

\* The positions of a history at which a Resolver invocation failed.
FailedAt(log) ==
    {n \in 1..Len(log) : log[n].ev = "processEnd" /\ log[n].val \notin ProcessValues}

\* C5: when a Resolver invocation fails, for a slot or for a token of a
\* SEPARATE slot, the call is rejected with exactly that failure and nothing
\* is evaluated afterwards: no further token, no later slot, no second
\* invocation on the failed text.
C5_ResolverFailure ==
    \A c \in Started :
        LET call == calls[c]
            log == Calls(call)
        IN  \A n \in FailedAt(log) :
               /\ n = Len(log)
               /\ call.pc = "rejected"
               /\ call.error = log[n].val
               /\ call.result = <<>>

\* The Resolver failed on the second of the three tokens of a SEPARATE slot
\* that is not the last slot, and the call is rejected with that failure.
C5_Witness ==
    \E c \in Started :
        LET call == calls[c]
            log == Calls(call)
        IN  /\ FailedAt(log) # {}
            /\ call.error = "e1"
            /\ ModeIn(log, call.i) = "separate"
            /\ Count(log, call.i, {"process"}) = 2
            /\ Len(WindowIn(call, call.i, call.noPrefixWords)) = 3
            /\ call.i + 1 < Len(args)

\* Some token of the unfiltered pool, trimmed and lowercased, equals one of
\* the prefix values of arg, lowercased.
Found(call, arg) ==
    \E n \in 1..Len(call.words) : \E k \in 1..Len(arg.values) :
        Lower(Trim(call.words[n])) = Lower(arg.values[k])

\* C6: the value of a FLAG slot is found when the default provider resolved
\* to a falsy value and (not found) when it resolved to a truthy one, found
\* being that some token of the unfiltered pool, trimmed and lowercased,
\* equals one of the prefix values, for a single prefix and for a list alike.
C6_Flag ==
    \A c \in Started :
        LET call == calls[c]
            log == Calls(call)
        IN  \A s \in 0..(Len(args) - 1) :
               (ModeIn(log, s) = "flag" /\ call.i > s) =>
                  LET arg == args[s + 1].members[ActiveIn(log, s)]
                      ended == Of(log, s, {"defaultEnd"})
                      found == Found(call, arg)
                  IN  /\ Len(ended) = 1
                      /\ ended[1].val \in {"truthy", "falsy"}
                      /\ Count(log, s, {"process"}) = 0
                      /\ call.processed[arg.id] =
                            [kind |-> "boolean",
                             items |-> <<IF (IF ended[1].val = "falsy" THEN found ELSE ~found)
                                         THEN "true" ELSE "false">>]

\* A FLAG slot with a list of prefix values found its flag in a token written
\* in another case, the default provider resolved to a truthy value and the
\* slot's value is false.
C6_Witness ==
    \E c \in Started :
        LET call == calls[c]
            log == Calls(call)
        IN  \E s \in 0..(Len(args) - 1) :
               /\ ModeIn(log, s) = "flag"
               /\ call.i > s
               /\ args[s + 1].members[ActiveIn(log, s)].isArray
               /\ Found(call, args[s + 1].members[ActiveIn(log, s)])
               /\ \E n \in 1..Len(call.words) : call.words[n] = <<"-", "A">>
               /\ Of(log, s, {"defaultEnd"})[1].val = "truthy"
               /\ call.processed[args[s + 1].members[ActiveIn(log, s)].id].items = <<"false">>

\* The token of the filtered pool at the effective index of slot s (the
\* explicit index if set, else the cursor), <<>> when there is none.
TokenAt(call, s) ==
    LET arg == args[s + 1].members[ActiveIn(call.log, s)]
        at == IF arg.index # <<>> THEN arg.index[1] ELSE CursorIn(call.log, s)
    IN  IF at + 1 \in DOMAIN call.noPrefixWords THEN call.noPrefixWords[at + 1] ELSE <<>>

\* s without one layer of surrounding double quotes, if it has one.
Unquoted(s) ==
    IF Len(s) >= 2 /\ s[1] = QUOTE /\ s[Len(s)] = QUOTE THEN SubSeq(s, 2, Len(s) - 1)
    ELSE s

\* The texts the Resolver was invoked on for slot s.
TextsOf(log, s) == [n \in 1..Count(log, s, {"process"}) |-> Of(log, s, {"process"})[n].text]

TwoWords ==
    /\ Len(args) = 2
    /\ \A n \in 1..2 : args[n].kind = "argument" /\ args[n].members[1].match = "word"
                       /\ args[n].members[1].index = <<>>

ABC == <<"a", " ", " ", "b", " ", " ", " ", "c">>

\* C7 as stated: for a WORD slot the text handed to the Resolver is the
\* filtered-pool token at the effective index, trimmed of surrounding
\* whitespace and, when isQuoted, without one layer of surrounding double
\* quotes, or the empty string when there is no such token; under the plain
\* strategy "a  b   c" with two WORD slots resolves them from "a" and "b".
C7_WordTrimmed ==
    \A c \in Started :
        LET call == calls[c]
            log == Calls(call)
        IN  /\ \A s \in 0..(Len(args) - 1) :
                  ModeIn(log, s) = "word" =>
                     TextsOf(log, s) =
                        << IF call.isQuoted THEN Unquoted(Trim(TokenAt(call, s)))
                           ELSE Trim(TokenAt(call, s)) >>
            /\ (TwoWords /\ split = "plain" /\ call.content = ABC /\ call.pc = "resolved") =>
                  TextsOf(log, 0) = << <<"a">> >> /\ TextsOf(log, 1) = << <<"b">> >>

\* C7 as amended: for a WORD slot the text handed to the Resolver is the
\* filtered-pool token at the effective index exactly as the tokenizer
\* produced it, surrounding whitespace included, or the empty string when
\* there is no token at that index; only when isQuoted holds and the trimmed
\* token is a double quote, one character or more, and a double quote, is it
\* the trimmed token without its first and last character. Under the plain
\* strategy "a  b   c" with two WORD slots hands the Resolver "a " and "b ".
C7_Word ==
    \A c \in Started :
        LET call == calls[c]
            log == Calls(call)
        IN  /\ \A s \in 0..(Len(args) - 1) :
                  ModeIn(log, s) = "word" =>
                     LET tok == TokenAt(call, s)
                         t == Trim(tok)
                     IN  TextsOf(log, s) =
                            << IF call.isQuoted /\ Len(t) >= 3 /\ t[1] = QUOTE
                                  /\ t[Len(t)] = QUOTE
                               THEN [n \in 1..(Len(t) - 2) |-> t[n + 1]]
                               ELSE tok >>
            /\ (TwoWords /\ split = "plain" /\ call.content = ABC /\ call.pc = "resolved") =>
                  TextsOf(log, 0) = << <<"a", " ">> >> /\ TextsOf(log, 1) = << <<"b", " ">> >>

\* Under the plain strategy "a  b   c" was parsed with two WORD slots.
C7_Witness ==
    \E c \in Started :
        /\ TwoWords
        /\ split = "plain"
        /\ calls[c].content = ABC
        /\ calls[c].pc = "resolved"
        /\ TextsOf(Calls(calls[c]), 1) = << <<"b", " ">> >>

\* tok, trimmed and lowercased, starts with a value of some PREFIX-mode spec
\* or equals a value of some FLAG-mode spec of the slot list, groups included.
Marker(tok) ==
    LET t == Lower(Trim(tok))
    IN  \E n \in 1..Len(args) : \E m \in 1..Len(args[n].members) :
           LET arg == args[n].members[m]
           IN  \E k \in 1..Len(arg.values) :
                  LET v == Lower(arg.values[k])
                  IN  \/ /\ arg.match = "prefix"
                         /\ Len(v) <= Len(t)
                         /\ \A x \in 1..Len(v) : t[x] = v[x]
                      \/ arg.match = "flag" /\ t = v

\* The tokens of the pool that are no markers, in the order of the pool.
Unmarked(ws) == SelectSeq(ws, LAMBDA w : ~Marker(w))

\* The concatenations of the runs of consecutive tokens of pool.
Runs(pool, sep) ==
    {<<>>} \cup {Join(SubSeq(pool, lo, hi), sep) : lo \in 1..Len(pool), hi \in 1..Len(pool)}

\* What a WORD slot may hand over from one token.
AsWord(tok) ==
    {tok} \cup (IF Len(Trim(tok)) >= 2 THEN {SubSeq(Trim(tok), 2, Len(Trim(tok)) - 1)} ELSE {})

\* C8: the filtered pool is the token pool, in the same order, without the
\* tokens that, trimmed and lowercased, start with the value of a PREFIX-mode
\* spec or equal the value of a FLAG-mode spec, the specs being those of the
\* whole slot list, group members included, allowed or not; a token that
\* only starts with a FLAG value is kept. The texts of WORD, REST, SEPARATE
\* and TEXT slots are made of tokens of this pool only.
C8_FilteredPool ==
    \A c \in Started :
        LET call == calls[c]
            log == Calls(call)
            pool == Unmarked(call.words)
        IN  /\ call.noPrefixWords = pool
            /\ \A n \in 1..Len(log) :
                  log[n].ev = "process" =>
                     LET mode == ModeIn(log, log[n].slot)
                     IN  /\ mode = "word" =>
                               log[n].text \in UNION {AsWord(pool[x]) : x \in 1..Len(pool)}
                                               \cup {<<>>}
                         /\ mode = "separate" =>
                               log[n].text \in {pool[x] : x \in 1..Len(pool)} \cup {<<>>}
                         /\ mode \in {"rest", "text"} =>
                               log[n].text \in Runs(pool, IF split = "split" THEN <<" ">> ELSE <<>>)

\* A token starting with "-" and a token equal to the flag value were
\* removed, a token that only starts with the flag value was kept, the
\* PREFIX slot itself was not allowed, and the REST slot was handed the rest.
C8_Witness ==
    \E c \in Started :
        LET call == calls[c]
            log == Calls(call)
        IN  /\ call.words = << <<"-", "A", " ">>, <<"a", "a", " ">>, <<"A", " ">>,
                              <<QUOTE, "a", QUOTE>> >>
            /\ call.noPrefixWords = << <<"a", "a", " ">>, <<QUOTE, "a", QUOTE>> >>
            /\ \E s \in 0..(Len(args) - 1) :
                  /\ args[s + 1].members[1].match = "prefix"
                  /\ Of(log, s, {"allow"}) # <<>>
                  /\ ActiveIn(log, s) = 0
            /\ \E n \in 1..Len(log) :
                  /\ log[n].ev = "process"
                  /\ ModeIn(log, log[n].slot) = "rest"
                  /\ log[n].text = <<"a", "a", " ", QUOTE, "a", QUOTE>>

\* The tokens of the unfiltered pool that, trimmed and lowercased, start with
\* a prefix value of arg, and the first such value for token n.
HitsOf(call, arg) ==
    {n \in 1..Len(call.words) :
        \E k \in 1..Len(arg.values) :
            StartsWith(Lower(Trim(call.words[n])), Lower(arg.values[k]))}

MatchedOf(call, arg, n) ==
    arg.values[SetMin({k \in 1..Len(arg.values) :
                          StartsWith(Lower(Trim(call.words[n])), Lower(arg.values[k]))})]

SetMax(S) == CHOOSE x \in S : \A y \in S : x >= y

\* The right-most hit without the matched prefix at its start.
Remainder(call, arg) ==
    LET n == SetMax(HitsOf(call, arg))
        t == Trim(call.words[n])
    IN  SubSeq(t, Len(MatchedOf(call, arg, n)) + 1, Len(t))

\* C9 as stated: for a PREFIX slot the hit is the right-most token of the
\* unfiltered pool that, trimmed and lowercased, starts with one of the
\* prefix values, the matched prefix being the first such value, and the text
\* handed to the Resolver is that token without the matched prefix at its
\* start (trimmed, de-quoted when isQuoted), whatever the case of the token
\* and of the prefix value; with no hit it is the empty string. The texts
\* are compared trimmed and without regard to case, and a quoted remainder
\* may be de-quoted or not, so that only the removal of the prefix is tested.
C9_PrefixRemoved ==
    \A c \in Started :
        LET call == calls[c]
            log == Calls(call)
        IN  \A s \in 0..(Len(args) - 1) :
               ModeIn(log, s) = "prefix" =>
                  LET arg == args[s + 1].members[ActiveIn(log, s)]
                      text == TextsOf(log, s)[1]
                  IN  IF HitsOf(call, arg) = {} THEN text = <<>>
                      ELSE LET r == Trim(Remainder(call, arg))
                           IN  Lower(Trim(text)) \in
                                  {Lower(r)} \cup
                                  (IF call.isQuoted THEN {Lower(Unquoted(r))} ELSE {})

\* C10: in the step that evaluates the allow predicates of a slot they are
\* called on the members in declaration order, each against the results
\* accumulated so far, every call before the last returns false and nothing
\* follows a call that returns true but the evaluation of that member, the
\* active spec; when no member is allowed (a group with no allowed member, a
\* single Argument whose allow returns false) every member was asked and the
\* step only advances to the next slot: wordIndex and processed are
\* unchanged and no mode function, default provider or Resolver is invoked.
C10_Alternatives ==
    [][\A c \in DOMAIN calls :
          LET old == calls[c]
              new == calls'[c]
              added == SubSeq(new.log, Len(old.log) + 1, Len(new.log))
              allows == SelectSeq(added, LAMBDA e : e.ev = "allow")
              members == args[old.i + 1].members
              last == Len(allows)
          IN  allows # <<>> =>
                 /\ last <= Len(members)
                 /\ \A n \in 1..last :
                       /\ added[n] = allows[n]
                       /\ allows[n].slot = old.i
                       /\ allows[n].member = n
                       /\ allows[n].keys = DOMAIN old.processed
                       /\ n < last => allows[n].val = "false"
                 /\ IF allows[last].val = "true"
                    THEN /\ \A n \in (last + 1)..Len(added) :
                               added[n].slot = old.i /\ added[n].member = last
                         /\ new.i = old.i
                         /\ new.pc \in {"process", "default"} => new.evaluator.member = last
                    ELSE /\ last = Len(members)
                         /\ added = allows
                         /\ new = [old EXCEPT !.i = old.i + 1, !.log = new.log]]_vars

\* No member of a group of three was allowed and the call resolved with the
\* entry of the next slot only, which read the first token of the filtered pool.
C10_Witness ==
    \E c \in Started :
        LET call == calls[c]
            log == Calls(call)
        IN  /\ Len(args[1].members) = 3
            /\ Count(log, 0, {"allow"}) = 3
            /\ ActiveIn(log, 0) = 0
            /\ call.pc = "resolved"
            /\ DOMAIN call.result = {"w1"}
            /\ call.wordIndex = 1
            /\ TextsOf(log, 1) = << <<"b", " ">> >>

\* What the environment returned to a call, in the order it returned it.
AnswerKinds == {"cancel", "allow", "match", "processEnd", "defaultEnd", "sendEnd"}

Answers(log) ==
    LET a == SelectSeq(log, LAMBDA e : e.ev \in AnswerKinds)
    IN  [n \in 1..Len(a) |-> <<a[n].ev, a[n].val>>]

\* The identifiers of the specs that were active in the history.
ActiveIds(log) ==
    {args[s + 1].members[ActiveIn(log, s)].id :
        s \in {t \in 0..(Len(args) - 1) : ActiveIn(log, t) # 0}}

\* The token pool, the filtered pool, the cursor and the result mapping of a
\* call are those of its own content and its own history.
OwnState(call) ==
    /\ split # FUNCTION => call.words = SplitText(split, call.content, <<>>)
    /\ call.noPrefixWords = Unmarked(call.words)
    /\ call.wordIndex = CursorIn(Calls(call), Len(args))
    /\ DOMAIN call.processed \subseteq ActiveIds(Calls(call))
    /\ call.pc = "resolved" => call.result = call.processed

\* Two calls are at the same point with the same variables; a call that is
\* between two slots (about to run process(i)) has no outcome yet.
SameState(x, y) ==
    /\ [x EXCEPT !.pc = "", !.result = <<>>] = [y EXCEPT !.pc = "", !.result = <<>>]
    /\ (x.pc # "run" /\ y.pc # "run") => (x.pc = y.pc /\ x.result = y.result)

\* C11: the calls of parse on one command, started at any moment and
\* interleaved at every await, do not interfere: the token pool, the
\* filtered pool, the cursor and the result mapping of each call are those
\* of its own content and history,
\* whatever the other calls did before or meanwhile; and two calls with the
\* same content, the same tokens and the same answers of the predicates,
\* probes, providers and Resolver are in the same state, so that they settle
\* with equal result mappings or equal failures.
C11_Independent ==
    /\ \A c \in DOMAIN calls : calls[c].pc # "idle" => OwnState(calls[c])
    /\ \A c \in DOMAIN calls : \A d \in DOMAIN calls :
          (/\ c < d
           /\ calls[c].pc # "idle" /\ calls[d].pc # "idle"
           /\ calls[c].content = calls[d].content
           /\ calls[c].words = calls[d].words
           /\ calls[c].isQuoted = calls[d].isQuoted
           /\ Answers(calls[c].log) = Answers(calls[d].log))
          => SameState(calls[c], calls[d])

\* Two calls of the same command with the same content have both resolved,
\* to different mappings because the Resolver answered differently; each
\* moved its own cursor once and read the first token of its own filtered
\* pool.
C11_Witness ==
    /\ Cardinality(DOMAIN calls) >= 2
    /\ \E c \in DOMAIN calls : \E d \in DOMAIN calls :
          /\ c # d
          /\ calls[c].pc = "resolved" /\ calls[d].pc = "resolved"
          /\ calls[c].content = calls[d].content
          /\ calls[c].content = <<"-", " ", "a">>
          /\ calls[c].result # calls[d].result
          /\ calls[c].wordIndex = 1 /\ calls[d].wordIndex = 1
          /\ TextsOf(Calls(calls[c]), 1) = << <<"a">> >>
          /\ TextsOf(Calls(calls[d]), 1) = << <<"a">> >>

\* The slot whose member has the identifier id (identifiers are pairwise
\* distinct in every enumerated slot list).
SlotOf(id) ==
    CHOOSE s \in 0..(Len(args) - 1) :
        \E m \in 1..Len(args[s + 1].members) : args[s + 1].members[m].id = id

\* C12: when a call resolves, the keys of the mapping it resolves to are
\* exactly the identifiers of the specs that were active during the call (a
\* Single spec whose allow returned true, the selected member of a group);
\* skipped slots, groups without an allowed member and cancel functions add
\* no key; and once a slot has completed, no later step removes its key or
\* changes its value.
C12_Keys ==
    [][\A c \in DOMAIN calls :
          LET old == calls[c]
              new == calls'[c]
          IN  /\ new.pc = "resolved" =>
                    /\ Len(args) # 0 => DOMAIN new.result = ActiveIds(Calls(new))
                    /\ Len(args) = 0 => DOMAIN new.result = {}
                    /\ new.result = new.processed
              /\ \A k \in DOMAIN old.processed :
                    /\ k \in DOMAIN new.processed
                    /\ SlotOf(k) < old.i => new.processed[k] = old.processed[k]]_vars

\* A call resolved with the key of its third slot only: its first slot was
\* not allowed and its second is a cancel function.
C12_Witness ==
    \E c \in Started :
        LET call == calls[c]
            log == Calls(call)
        IN  /\ call.pc = "resolved"
            /\ Len(args) = 3
            /\ args[2].kind = "function"
            /\ Of(log, 0, {"allow"}) # <<>>
            /\ ActiveIn(log, 0) = 0
            /\ Count(log, 1, {"cancel"}) = 1
            /\ DOMAIN call.result = {"s2"}

\* C13: with an empty slot list every call of parse resolves at once to the
\* empty mapping, whatever the content and the split strategy: the
\* tokenizer was not invoked (neither a built-in strategy nor a split
\* function: the history has no tokenizer entry and there is no token), and
\* no cancel function, predicate, provider or Resolver was invoked and
\* nothing was sent.
C13_EmptyArgs ==
    \A c \in DOMAIN calls :
        (Len(args) = 0 /\ calls[c].pc # "idle") =>
            /\ calls[c].pc = "resolved"
            /\ calls[c].result = <<>>
            /\ calls[c].log = <<>>
            /\ calls[c].words = <<>> /\ calls[c].noPrefixWords = <<>>
            /\ calls[c].sent = <<>>
            /\ calls[c].i = 0 /\ calls[c].wordIndex = 0

\* A command without slots whose split is a function has parsed the content
\* "a  b   c".
C13_Witness ==
    \E c \in DOMAIN calls :
        /\ Len(args) = 0
        /\ split = FUNCTION
        /\ calls[c].pc = "resolved"
        /\ calls[c].content = ABC
        /\ calls[c].result = <<>>

\* The positions of the double quotes of s, in increasing order.
QuoteSeq(s) ==
    LET F[n \in 0..Len(s)] ==
            IF n = 0 THEN <<>>
            ELSE IF s[n] = QUOTE THEN Append(F[n - 1], n) ELSE F[n - 1]
    IN  F[Len(s)]

\* The double-quoted runs of s: its quotes paired from the left, the first
\* with the second, the third with the fourth.
QuotedRuns(s) ==
    {<<QuoteSeq(s)[2 * k - 1], QuoteSeq(s)[2 * k]>> : k \in 1..(Len(QuoteSeq(s)) \div 2)}

\* The number of characters just before position q that are neither
\* whitespace nor a double quote.
RECURSIVE GlueBefore(_, _)
GlueBefore(s, q) ==
    IF q <= 1 \/ s[q - 1] \in {" ", "\t", "\n", QUOTE} THEN 0
    ELSE 1 + GlueBefore(s, q - 1)

\* tok is piece, or piece and the one whitespace character that follows it.
IsToken(tok, piece) ==
    \/ tok = piece
    \/ /\ Len(tok) = Len(piece) + 1
       /\ SubSeq(tok, 1, Len(piece)) = piece
       /\ tok[Len(tok)] \in {" ", "\t", "\n"}

\* C14: under the sticky strategy every double-quoted run is one token
\* together with the characters other than whitespace and quotes that stand
\* just before it, interior whitespace included: a glued run such as
\* key="a b" is the single token key="a b", and a freestanding run is a
\* token too. Under the quoted strategy key="a b" gives two tokens.
C14_Sticky ==
    \A c \in DOMAIN calls :
        calls[c].pc # "idle" =>
            LET s == calls[c].content
                ws == calls[c].words
            IN  /\ split = "sticky" =>
                      \A run \in QuotedRuns(s) :
                          \E n \in 1..Len(ws) :
                              IsToken(ws[n], SubSeq(s, run[1] - GlueBefore(s, run[1]), run[2]))
                /\ (split = "sticky" /\ s = KeyAB) => ws = <<KeyAB>>
                /\ (split = "quoted" /\ s = KeyAB) =>
                      ws = << <<"k", "e", "y", "=", QUOTE, "a", " ">>, <<"b", QUOTE>> >>

\* Under the sticky strategy key="a b" was split into one token, which
\* holds the run in front of the quote and the space inside the quotes.
C14_Witness ==
    \E c \in DOMAIN calls :
        /\ split = "sticky"
        /\ calls[c].content = KeyAB
        /\ calls[c].pc # "idle"
        /\ Len(calls[c].words) = 1
        /\ GlueBefore(calls[c].content, 5) = 4
        /\ QuotedRuns(calls[c].content) = {<<5, 9>>}

\* The slots of a history that resolved to a mode the dispatcher has no
\* entry for.
UnknownAt(log) ==
    {s \in 0..(Len(args) - 1) : LET m == ModeIn(log, s) IN m # "" /\ m \notin MatchModes}

\* C15: when the active spec of a slot has a match mode, given or returned
\* by its mode function, that is none of WORD, REST, SEPARATE, PREFIX, FLAG,
\* TEXT, CONTENT and NONE, the call is rejected in the step that dispatches
\* the slot, with a failure other than COMMAND_CANCELLED: the last thing
\* evaluated is the allow predicate or the mode function of that slot, no
\* provider or Resolver was invoked for it, the cursor did not move, no
\* entry was written for it and no later slot was evaluated.
C15_UnknownMode ==
    \A c \in Started :
        LET call == calls[c]
            log == Calls(call)
        IN  \A s \in UnknownAt(log) :
               LET arg == args[s + 1].members[ActiveIn(log, s)]
               IN  /\ call.pc = "rejected"
                   /\ call.error # COMMAND_CANCELLED
                   /\ call.error \notin ProcessErrors \cup SendErrors \cup DefaultErrors
                   /\ call.result = <<>>
                   /\ call.i = s
                   /\ Of(log, s, {"process", "processEnd", "default", "defaultEnd"}) = <<>>
                   /\ log[Len(log)].slot = s
                   /\ log[Len(log)].ev \in {"allow", "match"}
                   /\ \A n \in 1..Len(log) : log[n].slot <= s
                   /\ arg.id \notin DOMAIN call.processed
                   /\ call.wordIndex = CursorIn(log, s)
                   /\ call.sent = <<>>

\* A spec declared with an unknown mode was dispatched after an earlier slot
\* had resolved, and the call is rejected with one entry.
C15_Witness ==
    \E c \in Started :
        LET call == calls[c]
            log == Calls(call)
        IN  /\ UnknownAt(log) = {1}
            /\ Of(log, 1, {"match"}) = <<>>
            /\ call.pc = "rejected"
            /\ DOMAIN call.processed = {"w0"}
            /\ call.wordIndex = 1
            /\ Len(args) = 3

\* C16: in the step in which a cancel function returns nothing or false the
\* call only moves on to the next slot: the cursor, the result mapping and
\* everything else but the slot index are unchanged and nothing is sent; in
\* the step in which it returns true the call is rejected with
\* COMMAND_CANCELLED, with nothing sent and nothing else evaluated.
C16_Probe ==
    [][\A c \in DOMAIN calls :
          LET old == calls[c]
              new == calls'[c]
              added == SubSeq(new.log, Len(old.log) + 1, Len(new.log))
          IN  (added # <<>> /\ added[1].ev = "cancel") =>
                 /\ added[1].slot = old.i
                 /\ added[1].keys = DOMAIN old.processed
                 /\ added[1].val \in {"undefined", "false"} =>
                       /\ Len(added) = 1
                       /\ new = [old EXCEPT !.i = old.i + 1, !.log = new.log]
                       /\ new.pc = "run"
                       /\ new.sent = <<>>
                 /\ added[1].val = "true" =>
                       /\ Len(added) = 1
                       /\ new = [old EXCEPT !.pc = "rejected", !.error = COMMAND_CANCELLED,
                                            !.log = new.log]
                       /\ new.sent = <<>>]_vars

\* A cancel function that follows a resolved WORD slot returned false and
\* the next slot was evaluated with the cursor at 1 and the one entry.
C16_Witness ==
    \E c \in Started :
        LET call == calls[c]
            log == Calls(call)
        IN  /\ Len(args) = 3
            /\ args[2].kind = "function"
            /\ Of(log, 1, {"cancel"}) # <<>>
            /\ Of(log, 1, {"cancel"})[1].val = "false"
            /\ Of(log, 2, {"process"}) # <<>>
            /\ Of(log, 2, {"process"})[1].keys = {"w0"}
            /\ call.wordIndex = 2
            /\ call.sent = <<>>

\* The positions of a history at which a cancel function returned a value
\* of vals.
ReturnedAt(log, vals) == {n \in 1..Len(log) : log[n].ev = "cancel" /\ log[n].val \in vals}

\* C17 as stated: a call is aborted at a cancel function only if the
\* function returned true or another truthy value; for every other value
\* (nothing, false, another falsy value such as 0 or the empty string) the
\* evaluation goes on with the next slot.
C17_OnlyTruthy ==
    \A c \in Started :
        LET call == calls[c]
            log == Calls(call)
        IN  \A n \in ReturnedAt(log, {"undefined", "false", "0"}) :
               /\ call.i > log[n].slot
               /\ ~(call.pc = "rejected" /\ n = Len(log))

\* C17 as amended: a call is aborted at a cancel function exactly when the
\* function returned something other than nothing and false. For nothing
\* and false the evaluation goes on with the next slot; for a falsy value
\* that is neither (0, the empty string) the call is rejected with
\* COMMAND_CANCELLED as for true, with nothing sent and nothing evaluated
\* afterwards; for a truthy value the call does not go on either.
C17_Abort ==
    \A c \in Started :
        LET call == calls[c]
            log == Calls(call)
        IN  /\ \A n \in ReturnedAt(log, {"undefined", "false"}) :
                  /\ call.i > log[n].slot
                  /\ ~(call.pc = "rejected" /\ n = Len(log))
            /\ \A n \in ReturnedAt(log, {"0", "true"}) :
                  /\ n = Len(log)
                  /\ call.pc = "rejected"
                  /\ call.error = COMMAND_CANCELLED
                  /\ call.i = log[n].slot
                  /\ call.sent = <<>>
            /\ \A n \in ReturnedAt(log, CancelReturns \ {"undefined", "false", "0", "true"}) :
                  /\ call.pc \in {"send", "rejected"}
                  /\ call.i = log[n].slot
                  /\ \A m \in (n + 1)..Len(log) : log[m].ev \in {"send", "sendEnd"}

\* A cancel function that follows a resolved slot returned 0 and the call is
\* rejected with COMMAND_CANCELLED, nothing sent, the last slot not reached.
C17_Witness ==
    \E c \in Started :
        LET call == calls[c]
            log == Calls(call)
        IN  /\ ReturnedAt(log, {"0"}) # {}
            /\ call.pc = "rejected"
            /\ call.error = COMMAND_CANCELLED
            /\ call.sent = <<>>
            /\ DOMAIN call.processed = {"w0"}
            /\ call.i + 1 < Len(args)

\* tok is a marker of arg evaluated in mode: trimmed and lowercased it starts
\* with a prefix value of arg (PREFIX) or equals one (FLAG).
MarkerOf(tok, arg, mode) ==
    \E k \in 1..Len(arg.values) :
        IF mode = "prefix" THEN StartsWith(Lower(Trim(tok)), Lower(arg.values[k]))
        ELSE Lower(Trim(tok)) = Lower(arg.values[k])

\* C18 as stated: for every spec that is evaluated in PREFIX or FLAG mode
\* during a call, a spec whose mode comes from its mode function included,
\* the tokens that match its prefix values are absent from the filtered
\* pool, the pool that the WORD, REST, SEPARATE and TEXT slots of the call
\* read.
C18_Markers ==
    \A c \in Started :
        LET call == calls[c]
            log == Calls(call)
        IN  \A s \in 0..(Len(args) - 1) :
               ModeIn(log, s) \in {"prefix", "flag"} =>
                  \A n \in 1..Len(call.noPrefixWords) :
                     ~MarkerOf(call.noPrefixWords[n],
                               args[s + 1].members[ActiveIn(log, s)], ModeIn(log, s))

\* The identifiers of the specs that were active in the slots before s.
EarlierIds(log, s) ==
    {args[t + 1].members[ActiveIn(log, t)].id :
        t \in {u \in 0..(s - 1) : ActiveIn(log, u) # 0}}

\* The positions of a history at which a Resolver invocation starts.
ProcessAt(log) == {n \in 1..Len(log) : log[n].ev = "process"}

\* The invocation at position n of the history is made by the evaluator of
\* a SEPARATE slot whose window holds one token or more (on an empty window
\* the Resolver is bound to the empty string, as in the other modes).
InLoop(call, log, n) ==
    /\ ModeIn(log, log[n].slot) = "separate"
    /\ WindowIn(call, log[n].slot, call.noPrefixWords) # <<>>

\* C19 as stated: whenever a Resolver invocation starts for a slot, in any
\* mode, every per-token invocation of a SEPARATE slot included, the mapping
\* it receives holds the entries of the earlier slots that resolved, and
\* nothing else: no entry under the slot's own identifier.
C19_AfterCompletion ==
    \A c \in Started :
        LET call == calls[c]
            log == Calls(call)
        IN  \A n \in ProcessAt(log) :
               /\ log[n].keys = EarlierIds(log, log[n].slot)
               /\ args[log[n].slot + 1].members[log[n].member].id \notin log[n].keys

\* C19 as amended: whenever a Resolver invocation starts for a slot, the
\* mapping it receives holds the entries of the earlier slots that resolved
\* and, except in the evaluator of a SEPARATE slot over one token or more,
\* no entry under the slot's own identifier. The evaluator of a SEPARATE
\* slot over one token or more writes the slot's entry before its first
\* invocation: every per-token invocation receives a mapping that holds,
\* under the slot's own identifier, the array of the results of the tokens
\* resolved so far (empty at the first invocation).
C19_Entries ==
    \A c \in Started :
        LET call == calls[c]
            log == Calls(call)
        IN  /\ \A n \in ProcessAt(log) :
                  LET own == args[log[n].slot + 1].members[log[n].member].id
                  IN  log[n].keys = EarlierIds(log, log[n].slot) \cup
                                    (IF InLoop(call, log, n) THEN {own} ELSE {})
            /\ (call.pc = "process" /\ InLoop(call, log, Len(log))) =>
                  LET own == args[call.i + 1].members[call.evaluator.member].id
                      ends == Of(log, call.i, {"processEnd"})
                  IN  call.processed[own] =
                         [kind |-> "array", items |-> [n \in 1..Len(ends) |-> ends[n].val]]

\* The Resolver is running on the second token of a SEPARATE slot that
\* follows a resolved slot: the mapping holds the earlier entry and, under
\* the slot's own identifier, the result of the first token.
C19_Witness ==
    \E c \in Started :
        LET call == calls[c]
            log == Calls(call)
        IN  /\ call.pc = "process"
            /\ ModeIn(log, call.i) = "separate"
            /\ call.i = 2
            /\ log[Len(log)].keys = {"w0", "s2"}
            /\ call.processed["s2"].items = <<"v2">>
            /\ call.evaluator.text = call.evaluator.wordArr[2]

\* The positions of the space characters of s, in increasing order.
SpaceSeq(s) ==
    LET F[n \in 0..Len(s)] ==
            IF n = 0 THEN <<>>
            ELSE IF s[n] = " " THEN Append(F[n - 1], n) ELSE F[n - 1]
    IN  F[Len(s)]

\* The part of s from its piece number from + 1 to its piece number to, the
\* pieces being what stands between two space characters (or an end of s):
\* the pieces of a window, joined by the spaces that separated them.
Pieces(s, from, to) ==
    LET sp == SpaceSeq(s)
        first == IF from = 0 THEN 1 ELSE sp[from] + 1
        last == IF to = Len(sp) + 1 THEN Len(s) ELSE sp[to] - 1
    IN  IF from >= to THEN <<>> ELSE [n \in 1..(last - first + 1) |-> s[first + n - 1]]

\* C20: the text a CONTENT slot hands to the Resolver is the part of the raw
\* content made of its pieces between single spaces number index + 1 to
\* index + limit (index 0 when unset, all the pieces when limit is unset),
\* with the spaces between them; it is this for every split (plain, split,
\* quoted, sticky, none, a separator, a function), whatever PREFIX and FLAG
\* specs the slot list has and wherever the cursor stands.
C20_Content ==
    \A c \in Started :
        LET call == calls[c]
            log == Calls(call)
        IN  \A s \in 0..(Len(args) - 1) :
               ModeIn(log, s) = "content" =>
                  LET arg == args[s + 1].members[ActiveIn(log, s)]
                      count == Len(SpaceSeq(call.content)) + 1
                      from == IF arg.index = <<>> THEN 0 ELSE arg.index[1]
                      to == IF arg.limit = <<>> \/ from + arg.limit[1] > count
                            THEN count ELSE from + arg.limit[1]
                  IN  TextsOf(log, s) = <<Pieces(call.content, from, to)>>

\* Under the sticky strategy, with the cursor at 1 and the token -A filtered
\* out as the marker of a FLAG spec, a CONTENT slot with limit 2 was handed
\* the first two pieces of the raw content, the marker among them.
C20_Witness ==
    \E c \in Started :
        LET call == calls[c]
            log == Calls(call)
        IN  /\ split = "sticky"
            /\ call.content = <<" ", "-", "A", " ", "a", "a", " ", "A", " ", QUOTE, "a", QUOTE>>
            /\ call.wordIndex = 1
            /\ ModeIn(log, 2) = "content"
            /\ ModeIn(log, 0) = "flag"
            /\ Len(call.noPrefixWords) < Len(call.words)
            /\ TextsOf(log, 2) = << <<" ", "-", "A">> >>

\* The call has settled: its promise is resolved or rejected.
Settled(call) == call.pc \in {"resolved", "rejected"}

\* One step of a call as the slot index sees it: the index stays or moves
\* to the next slot, never past the end of the list; the call resolves only
\* from the end of the list, to the mapping it has built; it is rejected
\* with a failure or with COMMAND_CANCELLED; and once settled it changes no
\* more.
IndexStep(old, new) ==
    /\ new.i \in {old.i, old.i + 1}
    /\ new.i <= Len(args)
    /\ (new.pc = "resolved" /\ old.pc # "resolved") =>
          /\ new.i = Len(args)
          /\ old.pc = "run" \/ (old.pc = "idle" /\ Len(args) = 0)
          /\ new.result = new.processed
          /\ new.error = ""
    /\ (new.pc = "rejected" /\ old.pc # "rejected") =>
          /\ new.error \in {COMMAND_CANCELLED} \cup ProcessErrors \cup DefaultErrors
                                \cup SendErrors \cup {TYPE_ERROR}
          /\ new.i = old.i
          /\ new.result = <<>>
    /\ Settled(old) => new = old

\* Slot s is visited at most once in the history: its cancel function, the
\* allow predicate of each of its members and its mode function are called
\* at most once.
VisitedOnce(log, s) ==
    /\ Count(log, s, {"cancel"}) <= 1
    /\ Count(log, s, {"match"}) <= 1
    /\ \A m \in 1..Len(args[s + 1].members) :
          Len(SelectSeq(Of(log, s, {"allow"}), LAMBDA e : e.member = m)) <= 1

\* C21: every parse call that has started eventually settles, provided the
\* Resolver invocations, default providers and sends it starts complete:
\* in every step the slot index stays or moves from i to i + 1, each slot
\* is visited at most once, and the call ends either resolved to the result
\* mapping, with the index at the number of slots, or rejected with a
\* failure or with COMMAND_CANCELLED, and stays as it ended.
C21_Settles ==
    /\ \A c \in 1..1 : (calls[c].pc # "idle") ~> Settled(calls[c])
    /\ [][\A c \in DOMAIN calls : IndexStep(calls[c], calls'[c])]_vars
    /\ [](\A c \in DOMAIN calls : \A s \in 0..(Len(args) - 1) :
             VisitedOnce(calls[c].log, s))

\* A call has resolved at the end of a list of three slots after a SEPARATE
\* slot went through two tokens, one Resolver invocation each.
C21_Witness ==
    \E c \in DOMAIN calls :
        /\ calls[c].pc = "resolved"
        /\ Len(args) = 3
        /\ calls[c].i = 3
        /\ \E s \in 0..2 :
              /\ ModeIn(calls[c].log, s) = "separate"
              /\ Count(calls[c].log, s, {"processEnd"}) = 2

====
